---- MODULE Spec2Model ----
(***************************************************************************)
(* A model of adles/interfaces/vsphere_interface.py (VsphereInterface):    *)
(* the instance resolver, the generic network resolver, the NIC            *)
(* reconciler, Master generation, template conversion and Deployment.      *)
(*                                                                         *)
(* Encoding of the Python values:                                          *)
(*  - a dict is a record/function over its keys, so `"k" in d` is          *)
(*    "k" \in DOMAIN d;                                                    *)
(*  - an `instances` value that is a Python int n is [int |-> n]; a        *)
(*    structured directive is a record over a subset of the keys           *)
(*    prefix, number, size-of;                                             *)
(*  - a folder dict keeps its sub-folders, in dict order, as the sequence  *)
(*    `children` of [name, node]; a base folder keeps `services` as a      *)
(*    sequence of [name, cfg];                                             *)
(*  - a `networks` list of the specification is a Python list object: the  *)
(*    service holds a reference, `heap` holds the list's elements;         *)
(*  - a hypervisor folder or VM handle is its path below the environment   *)
(*    root folder; a '/'-joined path string is the sequence of its names.  *)
(***************************************************************************)
EXTENDS Integers, Sequences, FiniteSets, TLC

VARIABLES
    pc,         \* where the run is: which entry points have returned, or how it ended
    folders,    \* self.folders, the folder tree of the loaded specification
    heap,       \* elements of every `networks` list object of the specification
    server,     \* the hypervisor: folders, VMs, templates, networks of the host
    net_table,  \* self.net_table
    calls,      \* the driver calls issued so far, in order
    call        \* the direct call of a private method under check, with its result

vars == <<pc, folders, heap, server, net_table, calls, call>>

----------------------------------------------------------------------------
(* Bounds of the model *)

MaxNics == 2        \* NICs a template or VM starts with
MaxNets == 2        \* networks a service instance declares
MaxInstance == 1    \* largest folder instance index of a direct _get_net call
MaxCalls == 2       \* direct calls of one private method in a row
MaxCount == 3       \* largest instance count below the thresholds

----------------------------------------------------------------------------
(* Class attributes and the catalogs of the specification *)

master_prefix == "(MASTER) "

master_root_name == "MASTER-FOLDERS"

thresholds ==
    [folder  |-> [warn |-> 25, error |-> 50],
     service |-> [warn |-> 50, error |-> 70]]

\* spec["services"]: web and db are hypervisor-managed, ext is foreign
services ==
    [web |-> [template |-> "web-tmpl"],
     db  |-> [template |-> "db-tmpl", note |-> "database"],
     ext |-> [image |-> "registry/ext"]]

\* The categories of spec["networks"], in dict order
NetCategories == <<"unique-networks", "generic-networks", "base-networks">>

\* spec["networks"]
networks ==
    ("unique-networks"  :> [internet |-> [vlan |-> 100]]) @@
    ("generic-networks" :> ("team-lan" :> [vswitch |-> "vs1"])) @@
    ("base-networks"    :> [mgmt |-> [vswitch |-> "vs0"]])

\* Every name of the catalog
CatalogNames == UNION {DOMAIN networks[NetCategories[k]] : k \in DOMAIN NetCategories}

\* A name no category declares
GhostNet == "ghost"

\* What get_network and a NIC backing hold when there is no such network
NoNet == "<none>"

\* `instance=None`, the default of _configure_nics
None == -2

----------------------------------------------------------------------------
(* adles.utils.pad, zero padding to two digits *)

pad(value) == IF value < 10 THEN "0" \o ToString(value) ELSE ToString(value)

(* VsphereInterface._path; a path string is the sequence of its names *)

_path(path, name) == Append(path, master_prefix \o name)

(* VsphereInterface._is_enabled *)

_is_enabled(spec) ==
    IF "enabled" \in DOMAIN spec THEN spec.enabled ELSE TRUE

(* VsphereInterface._is_vsphere *)

_is_vsphere(service_name) ==
    IF service_name \notin DOMAIN services THEN FALSE
    ELSE "template" \in DOMAIN services[service_name]

(* VsphereInterface._determine_net_type: the first category holding the label *)

RECURSIVE DetermineFrom(_, _)
DetermineFrom(network_label, k) ==
    IF k > Len(NetCategories) THEN ""
    ELSE IF network_label \in DOMAIN networks[NetCategories[k]] THEN NetCategories[k]
    ELSE DetermineFrom(network_label, k + 1)

_determine_net_type(network_label) == DetermineFrom(network_label, 1)

(* VsphereInterface._get_vlan: a generator over 2000..4095; next() of a     *)
(* generator made by this call is its first value                          *)

_get_vlan == 2000

----------------------------------------------------------------------------
(* VsphereInterface._instances_handler                                     *)
(* The result is [num, prefix, warned, exc]: exc is "" when the method      *)
(* returns (num, prefix), else the exception that leaves it.  Both          *)
(* threshold branches build their log arguments from self.__name__, which   *)
(* an instance of the class does not have: evaluating it raises             *)
(* AttributeError before the logger is called and before line 599.          *)

\* A variant of InstancesNum that leaves the default count when the directive has
\* neither `number` nor `size-of` (line 592 missing)
InstancesNumKeepsDefault(spec) ==
    IF "instances" \notin DOMAIN spec THEN 1
    ELSE IF "int" \in DOMAIN spec.instances THEN spec.instances.int
    ELSE IF "number" \in DOMAIN spec.instances THEN spec.instances.number
    ELSE 1

InstancesNum(spec) ==
    IF "instances" \notin DOMAIN spec THEN 1
    ELSE IF "int" \in DOMAIN spec.instances THEN spec.instances.int
    ELSE IF "number" \in DOMAIN spec.instances THEN spec.instances.number
    ELSE IF "size-of" \in DOMAIN spec.instances THEN 1
    ELSE 0

InstancesPrefix(spec) ==
    IF "instances" \notin DOMAIN spec THEN ""
    ELSE IF "int" \in DOMAIN spec.instances THEN ""
    ELSE IF "prefix" \in DOMAIN spec.instances THEN spec.instances.prefix
    ELSE ""

\* A variant of _instances_handler that refuses a count of zero
_instances_handler_positive(spec, obj_type) ==
    LET num    == InstancesNum(spec)
        prefix == InstancesPrefix(spec)
    IN  IF num > thresholds[obj_type].warn
        THEN [num |-> num, prefix |-> prefix, warned |-> FALSE, exc |-> "AttributeError"]
        ELSE IF num = 0
        THEN [num |-> num, prefix |-> prefix, warned |-> FALSE, exc |-> "Exception"]
        ELSE [num |-> num, prefix |-> prefix, warned |-> FALSE, exc |-> ""]

_instances_handler(spec, obj_type) ==
    LET num    == InstancesNum(spec)
        prefix == InstancesPrefix(spec)
    IN  IF num > thresholds[obj_type].error
        THEN [num |-> num, prefix |-> prefix, warned |-> FALSE, exc |-> "AttributeError"]
        ELSE IF num > thresholds[obj_type].warn
        THEN [num |-> num, prefix |-> prefix, warned |-> FALSE, exc |-> "AttributeError"]
        ELSE [num |-> num, prefix |-> prefix, warned |-> FALSE, exc |-> ""]

----------------------------------------------------------------------------
(* The state a method works on: the hypervisor (folders, vms, nets,         *)
(* templates), self.net_table, the list objects of the specification, the   *)
(* driver calls issued, the value returned (ret) and the exception that is  *)
(* propagating (exc, "" when none).  failed is the object                   *)
(* _instances_handler was resolving when it raised: its place in the folder *)
(* tree of the specification, its kind and the count resolved.              *)

NoFailure == [node |-> <<>>, obj_type |-> "", num |-> 0]

Failure(node, obj_type, r) == [node |-> node, obj_type |-> obj_type, num |-> r.num]

State ==
    [folders   |-> server.folders,
     vms       |-> server.vms,
     nets      |-> server.nets,
     templates |-> server.templates,
     template_folder |-> server.template_folder,
     others    |-> server.others,
     net_table |-> net_table,
     heap      |-> heap,
     calls     |-> calls,
     ret       |-> NoNet,
     exc       |-> "",
     failed    |-> NoFailure]

ServerOf(st) ==
    [folders |-> st.folders, vms |-> st.vms, nets |-> st.nets,
     templates |-> st.templates, template_folder |-> st.template_folder,
     others |-> st.others]

Log(st, c) == [st EXCEPT !.calls = Append(@, c)]

Raise(st, e) == [st EXCEPT !.exc = e]

----------------------------------------------------------------------------
(* The hypervisor driver (adles.vsphere): what the calls of the interface   *)
(* do to the hypervisor.  A NIC is known by its number, the N of its label  *)
(* "Network adapter N"; vm.nics maps the numbers in use to the network      *)
(* backing each NIC.                                                        *)

\* Vsphere.get_network: the network of that name, if the host has one
get_network(st, name) == IF name \in st.nets THEN name ELSE NoNet

\* network_utils.create_portgroup
create_portgroup(st, name, vlan, vswitch_name) ==
    [Log(st, [op |-> "create_portgroup", name |-> name, vlan |-> vlan,
              vswitch |-> vswitch_name])
        EXCEPT !.nets = @ \cup {name}]

\* len(list(vm.network))
NumNics(vm) == Cardinality(DOMAIN vm.nics)

NextNicNumber(vm) ==
    IF DOMAIN vm.nics = {} THEN 1
    ELSE 1 + CHOOSE n \in DOMAIN vm.nics : \A m \in DOMAIN vm.nics : m <= n

\* vm_utils.add_nic
add_nic(st, vm, network, summary) ==
    LET n == NextNicNumber(st.vms[vm])
    IN  [Log(st, [op |-> "add_nic", vm |-> vm, network |-> network,
                  summary |-> summary])
            EXCEPT !.vms[vm].nics = (n :> network) @@ @]

\* vm_utils.delete_nic: removes the NIC of that number, if there is one
delete_nic(st, vm, nic_number) ==
    [Log(st, [op |-> "delete_nic", vm |-> vm, nic_number |-> nic_number])
        EXCEPT !.vms[vm].nics =
            [n \in (DOMAIN @) \ {nic_number} |-> @[n]]]

\* vm_utils.edit_nic
edit_nic(st, vm, nic_id, port_group, summary) ==
    [Log(st, [op |-> "edit_nic", vm |-> vm, nic_id |-> nic_id,
              port_group |-> port_group, summary |-> summary])
        EXCEPT !.vms[vm].nics[nic_id] = port_group]

----------------------------------------------------------------------------
(* VsphereInterface._get_net: st.ret is the resolved name                   *)

\* A variant of _get_net that creates the generic network without asking the
\* host whether it is there (lines 678-679 missing)
_get_net_unchecked(st, name, instance) ==
    LET net_type == _determine_net_type(name)
    IN  IF net_type = "unique-networks" THEN [st EXCEPT !.ret = name]
        ELSE IF net_type = "generic-networks"
        THEN IF instance = -1 THEN Raise(st, "ValueError")
             ELSE LET net_name == name \o "-GENERIC-" \o pad(instance)
                      s1 == create_portgroup(st, net_name, _get_vlan, "vswitch0")
                  IN  IF net_name \notin st.net_table
                      THEN [s1 EXCEPT !.net_table = @ \cup {net_name},
                                      !.ret = net_name]
                      ELSE [st EXCEPT !.ret = net_name]
        ELSE Raise(st, "TypeError")

\* A variant of _get_net that registers only the networks it creates (line 689
\* inside the else branch of line 682)
_get_net_created_only(st, name, instance) ==
    LET net_type == _determine_net_type(name)
    IN  IF net_type = "unique-networks" THEN [st EXCEPT !.ret = name]
        ELSE IF net_type = "generic-networks"
        THEN IF instance = -1 THEN Raise(st, "ValueError")
             ELSE LET net_name == name \o "-GENERIC-" \o pad(instance)
                      cfg == networks["generic-networks"][name]
                      vsw == IF "vswitch" \in DOMAIN cfg THEN cfg.vswitch
                             ELSE "vswitch0"
                  IN  IF net_name \notin st.net_table
                         /\ get_network(st, net_name) = NoNet
                      THEN [create_portgroup(st, net_name, _get_vlan, vsw)
                              EXCEPT !.net_table = @ \cup {net_name},
                                     !.ret = net_name]
                      ELSE [st EXCEPT !.ret = net_name]
        ELSE Raise(st, "TypeError")

_get_net(st, name, instance) ==
    LET net_type == _determine_net_type(name)
    IN  IF net_type = "unique-networks" THEN [st EXCEPT !.ret = name]
        ELSE IF net_type = "generic-networks"
        THEN IF instance = -1 THEN Raise(st, "ValueError")
             ELSE LET net_name == name \o "-GENERIC-" \o pad(instance)
                      cfg == networks["generic-networks"][name]
                      vsw == IF "vswitch" \in DOMAIN cfg THEN cfg.vswitch
                             ELSE "vswitch0"
                      s1  == IF get_network(st, net_name) # NoNet THEN st
                             ELSE create_portgroup(st, net_name, _get_vlan, vsw)
                  IN  IF net_name \notin st.net_table
                      THEN [s1 EXCEPT !.net_table = @ \cup {net_name},
                                      !.ret = net_name]
                      ELSE [st EXCEPT !.ret = net_name]
        ELSE Raise(st, "TypeError")

----------------------------------------------------------------------------
(* VsphereInterface._configure_nics(vm, networks, instance): `networks` is  *)
(* the reference of the list object passed; `nets = networks` names the     *)
(* same object, so nets.pop() removes the last element of the passed list.  *)

\* lines 353-354: zip(range(1, diff + 1), reversed(range(num_nics)))
RECURSIVE RemoveExcess(_, _, _, _)
RemoveExcess(st, vm, nic, left) ==
    IF left = 0 THEN st
    ELSE RemoveExcess(delete_nic(st, vm, nic), vm, nic - 1, left - 1)

\* lines 359-363
RECURSIVE CreateMissing(_, _, _, _)
CreateMissing(st, vm, nets, left) ==
    IF left = 0 THEN st
    ELSE LET list     == st.heap[nets]
             net_name == list[Len(list)]
             popped   == [st EXCEPT !.heap[nets] = SubSeq(list, 1, Len(list) - 1)]
         IN  CreateMissing(add_nic(popped, vm, get_network(popped, net_name), net_name),
                           vm, nets, left - 1)

\* lines 369-378: the NICs i .. num_nets against the list as it is now
RECURSIVE EditNics(_, _, _, _, _, _)
EditNics(st, vm, list, i, num_nets, instance) ==
    IF i > num_nets \/ i > Len(list) THEN st
    ELSE LET s1 == IF instance # None THEN _get_net(st, list[i], instance)
                   ELSE [st EXCEPT !.ret = list[i]]
         IN  IF s1.exc # "" THEN s1
             ELSE IF i \notin DOMAIN s1.vms[vm].nics THEN Raise(s1, "AttributeError")
             ELSE LET network == get_network(s1, s1.ret)
                      s2 == IF s1.vms[vm].nics[i] = network THEN s1
                            ELSE edit_nic(s1, vm, i, network, s1.ret)
                  IN  EditNics(s2, vm, list, i + 1, num_nets, instance)

_configure_nics(st, vm, nets, instance) ==
    LET num_nics == NumNics(st.vms[vm])
        num_nets == Len(st.heap[nets])
        s1 == IF num_nics > num_nets
              THEN RemoveExcess(st, vm, num_nics - 1, num_nics - num_nets)
              ELSE IF num_nics < num_nets
              THEN CreateMissing(st, vm, nets, num_nets - num_nics)
              ELSE st
    IN  EditNics(s1, vm, s1.heap[nets], 1, Len(s1.heap[nets]), instance)

----------------------------------------------------------------------------
(* More of the driver: folders, lookups, clones, snapshots, templates.      *)
(* Every call that is issued for an object of the specification is logged   *)
(* with `node`, the path of that object in the folder tree of the           *)
(* specification.                                                           *)

root_folder == <<>>

master_folder == <<master_root_name>>

\* Vsphere.create_folder: the handle of the folder of that name in create_in
create_folder(st, name, create_in, node) ==
    [Log(st, [op |-> "create_folder", name |-> name, create_in |-> create_in,
              node |-> node])
        EXCEPT !.folders = @ \cup {Append(create_in, name)}]

\* vm_utils.clone_vm: a copy of the source under that name, unless the name is taken
clone_vm(st, source, folder, name, node) ==
    LET target == Append(folder, name)
        logged == Log(st, [op |-> "clone_vm", source |-> source.name,
                           from_template |-> source.vm.template,
                           folder |-> folder, name |-> name, node |-> node])
    IN  IF target \in DOMAIN st.vms \/ ~source.vm.clonable THEN logged
        ELSE [logged EXCEPT !.vms = (target :> [source.vm EXCEPT !.template = FALSE]) @@ @]

\* vm_utils.create_snapshot
create_snapshot(st, vm, name) ==
    Log(st, [op |-> "create_snapshot", vm |-> vm, name |-> name])

\* vm_utils.set_note
set_note(st, vm, note) == Log(st, [op |-> "set_note", vm |-> vm, note |-> note])

----------------------------------------------------------------------------
(* Master generation *)

\* VsphereInterface._create_master_networks, for one category
RECURSIVE CreateNetworksFrom(_, _, _)
CreateNetworksFrom(st, net_type, names) ==
    IF names = {} THEN st
    ELSE LET name   == CHOOSE n \in names : TRUE
             config == networks[net_type][name]
             vlan   == IF "vlan" \in DOMAIN config THEN config.vlan ELSE _get_vlan
             vsw    == IF "vswitch" \in DOMAIN config THEN config.vswitch
                       ELSE "vswitch0"
             s1     == IF get_network(st, name) # NoNet THEN st
                       ELSE create_portgroup(st, name, vlan, vsw)
         IN  CreateNetworksFrom(s1, net_type, names \ {name})

_create_master_networks(st, net_type) ==
    CreateNetworksFrom(st, net_type, DOMAIN networks[net_type])

\* VsphereInterface._clone_service: st.ret is the handle of the clone, or NoNet for None
_clone_service(st, folder, service_name, node) ==
    IF ~_is_vsphere(service_name) THEN [st EXCEPT !.ret = NoNet]
    ELSE LET config  == services[service_name]
             vm_name == master_prefix \o service_name
             vm      == Append(folder, vm_name)
             s0      == Log(st, [op |-> "find_template", template |-> config.template,
                                 node |-> node])
         IN  IF config.template \notin DOMAIN st.templates
             THEN [s0 EXCEPT !.ret = NoNet]
             ELSE LET s1 == clone_vm(s0, [name |-> config.template,
                                          vm |-> st.templates[config.template]],
                                     folder, vm_name, node)
                  IN  IF vm \in DOMAIN s1.vms
                      THEN [(IF "note" \in DOMAIN config
                             THEN set_note(s1, vm, config.note) ELSE s1)
                               EXCEPT !.ret = vm]
                      ELSE [s1 EXCEPT !.ret = NoNet]

\* A variant of MasterServices that gives up the folder at the first service
\* whose clone failed (`break` for the `continue` of line 266)
RECURSIVE MasterServicesBreak(_, _, _, _, _)
MasterServicesBreak(st, entries, k, parent, node) ==
    IF k > Len(entries) \/ st.exc # "" THEN st
    ELSE LET sname   == entries[k].name
             sconfig == entries[k].cfg
             at      == Append(node, sname)
             s1 == _clone_service(st, parent, sconfig.service, at)
             s2 == _configure_nics(s1, s1.ret, sconfig.networks, None)
             s3 == IF s2.exc # "" THEN s2
                   ELSE create_snapshot(s2, s1.ret, "initial mastering snapshot")
         IN  IF ~_is_vsphere(sconfig.service)
             THEN MasterServicesBreak(st, entries, k + 1, parent, node)
             ELSE IF s1.ret = NoNet THEN s1
             ELSE MasterServicesBreak(s3, entries, k + 1, parent, node)

\* VsphereInterface._master_base_folder_gen, from the k-th service on
RECURSIVE MasterServices(_, _, _, _, _)
MasterServices(st, entries, k, parent, node) ==
    IF k > Len(entries) \/ st.exc # "" THEN st
    ELSE LET sname   == entries[k].name
             sconfig == entries[k].cfg
             at      == Append(node, sname)
             s1 == _clone_service(st, parent, sconfig.service, at)
             s2 == _configure_nics(s1, s1.ret, sconfig.networks, None)
             s3 == IF s2.exc # "" THEN s2
                   ELSE create_snapshot(s2, s1.ret, "initial mastering snapshot")
         IN  IF ~_is_vsphere(sconfig.service)
             THEN MasterServices(st, entries, k + 1, parent, node)
             ELSE IF s1.ret = NoNet
             THEN MasterServices(s1, entries, k + 1, parent, node)
             ELSE MasterServices(s3, entries, k + 1, parent, node)

_master_base_folder_gen(st, folder_name, folder_dict, parent, node) ==
    MasterServices(st, folder_dict.services, 1, parent, node)

\* VsphereInterface._master_parent_folder_gen; MasterEntries is its loop
RECURSIVE _master_parent_folder_gen(_, _, _, _)
RECURSIVE MasterEntries(_, _, _, _, _)
_master_parent_folder_gen(st, folder, parent, node) ==
    IF _is_enabled(folder) THEN st
    ELSE MasterEntries(st, folder.children, 1, parent, node)

MasterEntries(st, entries, k, parent, node) ==
    IF k > Len(entries) \/ st.exc # "" THEN st
    ELSE LET sub_name    == entries[k].name
             sub_value   == entries[k].node
             at          == Append(node, sub_name)
             folder_name == master_prefix \o sub_name
             new_folder  == Append(parent, folder_name)
             s1 == create_folder(st, folder_name, parent, at)
             s2 == IF ~_is_enabled(sub_value) THEN s1
                   ELSE IF "services" \in DOMAIN sub_value
                   THEN _master_base_folder_gen(s1, sub_name, sub_value, new_folder, at)
                   ELSE _master_parent_folder_gen(s1, sub_value, new_folder, at)
         IN  MasterEntries(s2, entries, k + 1, parent, node)

RECURSIVE MasterNetworks(_, _)
MasterNetworks(st, k) ==
    IF k > Len(NetCategories) THEN st
    ELSE MasterNetworks(_create_master_networks(st, NetCategories[k]), k + 1)

\* A variant of create_masters that generates the Masters before it sees to the
\* networks (lines 186-187 after line 191)
create_masters_networks_last(st) ==
    IF ~st.template_folder THEN st
    ELSE LET s1 == create_folder(st, master_root_name, root_folder, <<>>)
             s2 == _master_parent_folder_gen(s1, folders, master_folder, <<>>)
         IN  IF s2.exc # "" THEN s2 ELSE MasterNetworks(s2, 1)

\* VsphereInterface.create_masters
create_masters(st) ==
    IF ~st.template_folder THEN st
    ELSE LET s1 == create_folder(st, master_root_name, root_folder, <<>>)
             s2 == MasterNetworks(s1, 1)
         IN  _master_parent_folder_gen(s2, folders, master_folder, <<>>)

----------------------------------------------------------------------------
(* Template conversion *)

\* vm_utils.change_vm_state(vm, "off", attempt_guest=True)
change_vm_state(st, vm) ==
    [Log(st, [op |-> "change_vm_state", vm |-> vm, state |-> "off"])
        EXCEPT !.vms[vm].on = FALSE]

\* vm_utils.convert_to_template: has no effect on a VM the host cannot convert
convert_to_template(st, vm) ==
    [Log(st, [op |-> "convert_to_template", vm |-> vm])
        EXCEPT !.vms[vm].template = st.vms[vm].convertible]

\* The entities of a folder, as folder.childEntity lists them: VMs, folders and
\* objects that are neither
ChildEntities(st, folder) ==
    {p \in (DOMAIN st.vms) \cup st.folders \cup st.others :
        Len(p) = Len(folder) + 1 /\ SubSeq(p, 1, Len(folder)) = folder}

\* VsphereInterface._convert_and_verify; ConvertItems is its loop
RECURSIVE _convert_and_verify(_, _)
RECURSIVE ConvertItems(_, _)

\* A variant of ConvertItems that converts templates again (lines 414-416 missing)
RECURSIVE ConvertItemsAlways(_, _)
ConvertItemsAlways(st, items) ==
    IF items = {} THEN st
    ELSE LET item == CHOOSE p \in items : TRUE
             s1 == IF st.vms[item].on THEN change_vm_state(st, item) ELSE st
             s2 == create_snapshot(s1, item, "Start of exercise")
             s3 == convert_to_template(s2, item)
             s4 == Log(s3, [op |-> "is_template", vm |-> item,
                            verified |-> s3.vms[item].template])
         IN  IF item \in DOMAIN st.vms THEN ConvertItemsAlways(s4, items \ {item})
             ELSE IF item \in st.folders
             THEN ConvertItemsAlways(_convert_and_verify(st, item), items \ {item})
             ELSE ConvertItemsAlways(st, items \ {item})


\* A variant of ConvertItems that snapshots after converting (lines 423 and 427
\* exchanged)
RECURSIVE ConvertItemsSnapshotLast(_, _)
ConvertItemsSnapshotLast(st, items) ==
    IF items = {} THEN st
    ELSE LET item == CHOOSE p \in items : TRUE
             s1 == IF st.vms[item].on THEN change_vm_state(st, item) ELSE st
             s2 == convert_to_template(s1, item)
             s3 == create_snapshot(s2, item, "Start of exercise")
             s4 == Log(s3, [op |-> "is_template", vm |-> item,
                            verified |-> s3.vms[item].template])
         IN  IF item \in DOMAIN st.vms
             THEN IF st.vms[item].template THEN ConvertItemsSnapshotLast(st, items \ {item})
                  ELSE ConvertItemsSnapshotLast(s4, items \ {item})
             ELSE IF item \in st.folders
             THEN ConvertItemsSnapshotLast(_convert_and_verify(st, item), items \ {item})
             ELSE ConvertItemsSnapshotLast(st, items \ {item})


\* A variant of ConvertItems that returns at the first failed verification
RECURSIVE ConvertItemsStopOnFailure(_, _)
ConvertItemsStopOnFailure(st, items) ==
    IF items = {} THEN st
    ELSE LET item == CHOOSE p \in items : TRUE
             s1 == IF st.vms[item].on THEN change_vm_state(st, item) ELSE st
             s2 == create_snapshot(s1, item, "Start of exercise")
             s3 == convert_to_template(s2, item)
             s4 == Log(s3, [op |-> "is_template", vm |-> item,
                            verified |-> s3.vms[item].template])
         IN  IF item \in DOMAIN st.vms
             THEN IF st.vms[item].template THEN ConvertItemsStopOnFailure(st, items \ {item})
                  ELSE IF ~s3.vms[item].template THEN s4
                  ELSE ConvertItemsStopOnFailure(s4, items \ {item})
             ELSE IF item \in st.folders
             THEN ConvertItemsStopOnFailure(_convert_and_verify(st, item), items \ {item})
             ELSE ConvertItemsStopOnFailure(st, items \ {item})


ConvertItems(st, items) ==
    IF items = {} THEN st
    ELSE LET item == CHOOSE p \in items : TRUE
             s1 == IF st.vms[item].on THEN change_vm_state(st, item) ELSE st
             s2 == create_snapshot(s1, item, "Start of exercise")
             s3 == convert_to_template(s2, item)
             s4 == Log(s3, [op |-> "is_template", vm |-> item,
                            verified |-> s3.vms[item].template])
         IN  IF item \in DOMAIN st.vms
             THEN IF st.vms[item].template THEN ConvertItems(st, items \ {item})
                  ELSE ConvertItems(s4, items \ {item})
             ELSE IF item \in st.folders
             THEN ConvertItems(_convert_and_verify(st, item), items \ {item})
             ELSE ConvertItems(st, items \ {item})

_convert_and_verify(st, folder) == ConvertItems(st, ChildEntities(st, folder))

----------------------------------------------------------------------------
(* Deployment *)

\* Vsphere traverse_path from the Master folder: the VM at that path, NoNet for None
FindMaster(st, path, node, service) ==
    [Log(st, [op |-> "traverse_path", root |-> master_folder, path |-> path,
              node |-> node, service |-> service])
        EXCEPT !.ret = IF master_folder \o path \in DOMAIN st.vms
                       THEN master_folder \o path ELSE NoNet]

\* lines 463-466 and 503-506: the name of instance i of a folder
FolderInstanceName(name, prefix, num_instances, i) ==
    (IF prefix = "" \/ num_instances = 1 THEN name ELSE prefix)
        \o (IF num_instances > 1 THEN pad(i) ELSE "")

\* line 545: the name of instance i of a service
ServiceInstanceName(service_name, prefix, num_instances, i) ==
    prefix \o service_name \o (IF num_instances > 1 THEN " " \o pad(i) ELSE "")

\* lines 544-553, from instance i on
RECURSIVE CloneInstances(_, _, _, _, _, _, _, _, _)
CloneInstances(st, service, service_name, value, r, parent, instance, node, i) ==
    IF i >= r.num \/ st.exc # "" THEN st
    ELSE LET instance_name == ServiceInstanceName(service_name, r.prefix, r.num, i)
             vm == Append(parent, instance_name)
             s1 == clone_vm(st, [name |-> service, vm |-> st.vms[service]],
                            parent, instance_name, node)
             s2 == IF vm \in DOMAIN s1.vms
                   THEN _configure_nics(s1, vm, value.networks, instance)
                   ELSE s1
         IN  CloneInstances(s2, service, service_name, value, r, parent, instance,
                            node, i + 1)

\* A variant of DeployServices that does not ask whether the service is
\* hypervisor-managed (lines 528-530 missing)
RECURSIVE DeployServicesAll(_, _, _, _, _, _, _)
DeployServicesAll(st, entries, k, parent, path, instance, node) ==
    IF k > Len(entries) \/ st.exc # "" THEN st
    ELSE LET service_name == entries[k].name
             value == entries[k].cfg
             at == Append(node, service_name)
             r  == _instances_handler(value, "service")
             s1 == FindMaster(st, _path(path, value.service), at, value.service)
             s2 == IF s1.ret = NoNet THEN s1
                   ELSE CloneInstances(s1, s1.ret, service_name, value, r, parent,
                                       instance, at, 0)
         IN  IF r.exc # ""
             THEN [Raise(st, r.exc) EXCEPT !.failed = Failure(at, "service", r)]
             ELSE DeployServicesAll(s2, entries, k + 1, parent, path, instance, node)

\* A variant of DeployServices that gives up the folder at the first service
\* whose Master is not found (`break` for the `continue` of line 541)
RECURSIVE DeployServicesBreak(_, _, _, _, _, _, _)
DeployServicesBreak(st, entries, k, parent, path, instance, node) ==
    IF k > Len(entries) \/ st.exc # "" THEN st
    ELSE LET service_name == entries[k].name
             value == entries[k].cfg
             at == Append(node, service_name)
             r  == _instances_handler(value, "service")
             s1 == FindMaster(st, _path(path, value.service), at, value.service)
         IN  IF ~_is_vsphere(value.service)
             THEN DeployServicesBreak(st, entries, k + 1, parent, path, instance, node)
             ELSE IF r.exc # ""
             THEN [Raise(st, r.exc) EXCEPT !.failed = Failure(at, "service", r)]
             ELSE IF s1.ret = NoNet THEN s1
             ELSE DeployServicesBreak(
                      CloneInstances(s1, s1.ret, service_name, value, r, parent,
                                     instance, at, 0),
                      entries, k + 1, parent, path, instance, node)

\* VsphereInterface._deploy_gen_services, from the k-th service on
RECURSIVE DeployServices(_, _, _, _, _, _, _)
DeployServices(st, entries, k, parent, path, instance, node) ==
    IF k > Len(entries) \/ st.exc # "" THEN st
    ELSE LET service_name == entries[k].name
             value == entries[k].cfg
             at == Append(node, service_name)
             r  == _instances_handler(value, "service")
             s1 == FindMaster(st, _path(path, value.service), at, value.service)
             s2 == IF s1.ret = NoNet THEN s1
                   ELSE CloneInstances(s1, s1.ret, service_name, value, r, parent,
                                       instance, at, 0)
         IN  IF ~_is_vsphere(value.service)
             THEN DeployServices(st, entries, k + 1, parent, path, instance, node)
             ELSE IF r.exc # ""
             THEN [Raise(st, r.exc) EXCEPT !.failed = Failure(at, "service", r)]
             ELSE DeployServices(s2, entries, k + 1, parent, path, instance, node)

_deploy_gen_services(st, entries, parent, path, instance, node) ==
    DeployServices(st, entries, 1, parent, path, instance, node)

\* lines 501-516, from instance i on
RECURSIVE BaseInstances(_, _, _, _, _, _, _, _)
BaseInstances(st, folder_name, folder_items, r, parent, path, node, i) ==
    IF i >= r.num \/ st.exc # "" THEN st
    ELSE LET instance_name == FolderInstanceName(folder_name, r.prefix, r.num, i)
             s1 == IF r.num > 1 THEN create_folder(st, instance_name, parent, node)
                   ELSE st
             new_folder == IF r.num > 1 THEN Append(parent, instance_name) ELSE parent
             s2 == _deploy_gen_services(s1, folder_items.services, new_folder,
                                        _path(path, folder_name), i, node)
         IN  BaseInstances(s2, folder_name, folder_items, r, parent, path, node, i + 1)

\* VsphereInterface._deploy_base_folder_gen
_deploy_base_folder_gen(st, folder_name, folder_items, parent, path, node) ==
    LET r == _instances_handler(folder_items, "folder")
    IN  IF r.exc # ""
        THEN [Raise(st, r.exc) EXCEPT !.failed = Failure(node, "folder", r)]
        ELSE BaseInstances(st, folder_name, folder_items, r, parent, path, node, 0)

\* VsphereInterface._deploy_parent_folder_gen; DeployEntries is its loop over the
\* entries of the dict, ParentInstances its loop over the instances of one entry
RECURSIVE _deploy_parent_folder_gen(_, _, _, _, _)
RECURSIVE DeployEntries(_, _, _, _, _, _)
RECURSIVE ParentInstances(_, _, _, _, _, _, _, _)
_deploy_parent_folder_gen(st, spec, parent, path, node) ==
    IF ~_is_enabled(spec) THEN st
    ELSE DeployEntries(st, spec, 1, parent, path, node)

DeployEntries(st, spec, k, parent, path, node) ==
    IF k > Len(spec.children) \/ st.exc # "" THEN st
    ELSE LET sub_name  == spec.children[k].name
             sub_value == spec.children[k].node
             at == Append(node, sub_name)
             r  == _instances_handler(spec, "folder")
         IN  IF r.exc # ""
             THEN [Raise(st, r.exc) EXCEPT !.failed = Failure(at, "folder", r)]
             ELSE DeployEntries(
                      ParentInstances(st, sub_name, sub_value, r, parent, path, at, 0),
                      spec, k + 1, parent, path, node)

ParentInstances(st, sub_name, sub_value, r, parent, path, node, i) ==
    IF i >= r.num \/ st.exc # "" THEN st
    ELSE LET instance_name == FolderInstanceName(sub_name, r.prefix, r.num, i)
             new_folder == Append(parent, instance_name)
             s1 == create_folder(st, instance_name, parent, node)
             s2 == IF ~_is_enabled(sub_value) THEN s1
                   ELSE IF "services" \in DOMAIN sub_value
                   THEN _deploy_base_folder_gen(s1, sub_name, sub_value, new_folder,
                                                _path(path, sub_name), node)
                   ELSE _deploy_parent_folder_gen(s1, sub_value, new_folder,
                                                  _path(path, sub_name), node)
         IN  ParentInstances(s2, sub_name, sub_value, r, parent, path, node, i + 1)

\* A variant of deploy_environment that generates the folders before it converts
\* the Masters (lines 395 and 399 exchanged)
deploy_environment_unconverted(st) ==
    IF master_folder \notin st.folders THEN Raise(st, "SystemExit")
    ELSE _convert_and_verify(
             _deploy_parent_folder_gen(st, folders, root_folder, <<>>, <<>>),
             master_folder)

\* VsphereInterface.deploy_environment
deploy_environment(st) ==
    IF master_folder \notin st.folders THEN Raise(st, "SystemExit")
    ELSE _deploy_parent_folder_gen(_convert_and_verify(st, master_folder),
                                   folders, root_folder, <<>>, <<>>)

----------------------------------------------------------------------------
(* The specifications and hypervisors a run may start from *)

\* A VM of the hypervisor
Vm(nics, on) ==
    [nics |-> nics, template |-> FALSE, on |-> on, clonable |-> TRUE,
     convertible |-> TRUE]

\* A dict with or without the key
Optional(key, values) == {<<>>} \cup {(key :> v) : v \in values}

FolderDirectives ==
    {[prefix |-> "T-", number |-> 3], [int |-> 2],
     [int |-> thresholds.folder.warn + 1], [int |-> thresholds.folder.error + 1]}

ServiceDirectives ==
    {[int |-> 0], [int |-> 2],
     [int |-> thresholds.service.warn + 1], [int |-> thresholds.service.error + 1]}

\* The services dict of the base folder Team, and its list objects
TeamServices ==
    {<<[name |-> "web", cfg |-> [service |-> "web", networks |-> "Team.web"] @@ i]>>
        : i \in Optional("instances", ServiceDirectives)}
    \cup
    {<<[name |-> "ext", cfg |-> [service |-> "ext", networks |-> "Team.ext"]],
       [name |-> "web", cfg |-> [service |-> "web", networks |-> "Team.web"] @@ i],
       [name |-> "db",  cfg |-> [service |-> "db",  networks |-> "Team.db"]]>>
        : i \in Optional("instances", ServiceDirectives)}

LoadedLists ==
    [n \in {"Team.web", "Team.db", "Team.ext"} |->
        IF n = "Team.web" THEN <<"internet", "team-lan">>
        ELSE IF n = "Team.db" THEN <<"team-lan">>
        ELSE <<"internet">>]

\* The list objects as loaded: db is on the generic network, or on a network of
\* the base category
LoadedHeaps ==
    {LoadedLists, [LoadedLists EXCEPT !["Team.db"] = <<"mgmt">>]}

TeamNodes ==
    {[group |-> "students", services |-> svcs] @@ e @@ i :
        svcs \in TeamServices,
        e \in Optional("enabled", {FALSE}),
        i \in Optional("instances", FolderDirectives)}

\* Team below the root, or below the parent folder Lab
FolderTrees ==
    {[children |-> <<[name |-> "Team", node |-> team]>>] @@ e :
        team \in TeamNodes, e \in Optional("enabled", {TRUE, FALSE})}
    \cup
    {[children |->
        <<[name |-> "Lab",
           node |-> [children |-> <<[name |-> "Team", node |-> team]>>] @@ i]>>] @@ e :
        team \in TeamNodes,
        i \in Optional("instances", {[int |-> 2]}),
        e \in Optional("enabled", {FALSE})}

\* Where Team is in the tree
TeamAt(tree) ==
    IF tree.children[1].name = "Team" THEN <<"Team">> ELSE <<"Lab", "Team">>

Prefixed(names) == [k \in DOMAIN names |-> master_prefix \o names[k]]

\* The Master folder as an earlier run or an operator may have left it: none, or
\* one holding Master VMs of web and db below the given folders, which the host
\* can or cannot convert to templates
MasterInventories(tree, nics) ==
    {[folders |-> {}, vms |-> <<>>, nets |-> {}]} \cup
    {[nets |-> CatalogNames,
      folders |-> {master_folder} \cup
                  {master_folder \o SubSeq(at, 1, k) : k \in 1..Len(at)},
      vms |-> [p \in {master_folder \o at \o <<master_prefix \o svc>>
                         : svc \in {"web", "db"}} |->
                  [Vm(nics, TRUE) EXCEPT !.convertible = cv]]]
        : at \in {Prefixed(TeamAt(tree)),
                  Prefixed(TeamAt(tree)) \o Prefixed(<<"Team">>)},
          cv \in BOOLEAN}

Init ==
    /\ pc = "ready"
    /\ folders \in FolderTrees
    /\ heap \in LoadedHeaps
    /\ \E n \in 0..MaxNics, tf \in BOOLEAN :
        \E inventory \in MasterInventories(folders, [k \in 1..n |-> NoNet]) :
          server = [folders |-> inventory.folders,
                    vms |-> inventory.vms,
                    nets |-> inventory.nets,
                    templates |-> [t \in {"web-tmpl", "db-tmpl"} |->
                                      Vm([k \in 1..n |-> NoNet], FALSE)],
                    template_folder |-> tf,
                    others |-> {}]
    /\ net_table = {}
    /\ calls = <<>>
    /\ call = <<>>

Returned(entry, st) == [entry |-> entry, exc |-> st.exc, failed |-> st.failed]

CreateMasters ==
    /\ pc = "ready"
    /\ LET st == create_masters(State)
       IN  /\ pc' = IF st.exc = "" THEN "mastered" ELSE "aborted"
           /\ server' = ServerOf(st)
           /\ heap' = st.heap
           /\ net_table' = st.net_table
           /\ calls' = st.calls
           /\ call' = Append(call, Returned("create_masters", st))
    /\ UNCHANGED folders

DeployEnvironment ==
    /\ pc \in {"ready", "mastered"}
    /\ LET st == deploy_environment(State)
       IN  /\ pc' = IF st.exc = "" THEN "deployed" ELSE "aborted"
           /\ server' = ServerOf(st)
           /\ heap' = st.heap
           /\ net_table' = st.net_table
           /\ calls' = st.calls
           /\ call' = Append(call, Returned("deploy_environment", st))
    /\ UNCHANGED folders

Next == CreateMasters \/ DeployEnvironment

Spec == Init /\ [][Next]_vars

----------------------------------------------------------------------------
(* Direct calls of the private methods, on inputs drawn from bounded sets.  *)
(* `call` is the history of the calls made: each entry holds the arguments  *)
(* and the state at entry, the result and the driver calls it issued.       *)

SeqsUpTo(S, n) == UNION {[1..k -> S] : k \in 0..n}

Issued(before, after) == SubSeq(after.calls, Len(before.calls) + 1, Len(after.calls))

IdleServer ==
    [folders |-> {}, vms |-> <<>>, nets |-> CatalogNames, templates |-> <<>>,
     template_folder |-> TRUE, others |-> {}]

(* --- _instances_handler --- *)

Counts ==
    (0..MaxCount) \cup
    UNION {{thresholds[t].warn, thresholds[t].warn + 1,
            thresholds[t].error, thresholds[t].error + 1} : t \in DOMAIN thresholds}

\* Structured directives: every subset of the keys prefix, number, size-of
Directives ==
    UNION {{[k \in keys |-> IF k = "number" THEN n
                            ELSE IF k = "prefix" THEN "T-" ELSE "students"]
              : n \in IF "number" \in keys THEN Counts ELSE {0}}
           : keys \in SUBSET {"prefix", "number", "size-of"}}

\* Nodes of a specification as far as _instances_handler reads them
InstanceSpecs ==
    {[description |-> "node"]} \cup
    {[description |-> "node", instances |-> [int |-> n]] : n \in Counts} \cup
    {[description |-> "node", instances |-> d] : d \in Directives}

InitInst ==
    /\ pc = "instances"
    /\ folders = <<>>
    /\ heap = <<>>
    /\ server = IdleServer
    /\ net_table = {}
    /\ calls = <<>>
    /\ \E spec \in InstanceSpecs, obj_type \in DOMAIN thresholds :
          call = [spec |-> spec, obj_type |-> obj_type, done |-> FALSE]

InstancesHandlerCall ==
    /\ pc = "instances"
    /\ ~call.done
    /\ call' = [spec |-> call.spec, obj_type |-> call.obj_type, done |-> TRUE,
                ret |-> _instances_handler(call.spec, call.obj_type)]
    /\ UNCHANGED <<pc, folders, heap, server, net_table, calls>>

NextInst == InstancesHandlerCall

InstSpec == InitInst /\ [][NextInst]_vars

(* --- _get_net --- *)

InitNet ==
    /\ pc = "get_net"
    /\ folders = <<>>
    /\ heap = <<>>
    /\ \E existing \in SUBSET {"team-lan-GENERIC-00"} :
          server = [IdleServer EXCEPT !.nets = @ \cup existing]
    /\ net_table = {}
    /\ calls = <<>>
    /\ call = <<>>

GetNetCall ==
    /\ pc = "get_net"
    /\ Len(call) <= MaxCalls
    /\ \E name \in CatalogNames \cup {GhostNet}, instance \in (-1)..MaxInstance :
          LET st == _get_net(State, name, instance)
          IN  /\ server' = ServerOf(st)
              /\ net_table' = st.net_table
              /\ calls' = st.calls
              /\ call' = Append(call,
                    [name |-> name, instance |-> instance,
                     known |-> server.nets, ret |-> st.ret, exc |-> st.exc,
                     issued |-> Issued(State, st)])
    /\ UNCHANGED <<pc, folders, heap>>

NextNet == GetNetCall

NetSpec == InitNet /\ [][NextNet]_vars

(* --- _convert_and_verify --- *)

\* A folder of the Master tree and the places of the VMs in it
ConvFolder == Append(master_folder, "(MASTER) Team")

ConvPlaces ==
    {Append(master_folder, "(MASTER) web"), Append(ConvFolder, "(MASTER) web"),
     Append(ConvFolder, "(MASTER) db")}

\* A VM as conversion may find it: a template (powered off), or a plain VM that
\* is on or off and that the host can or cannot convert
ConvVms ==
    {[Vm(<<>>, FALSE) EXCEPT !.template = TRUE]} \cup
    {[Vm(<<>>, on) EXCEPT !.convertible = cv] : on \in BOOLEAN, cv \in BOOLEAN}

InitConv ==
    /\ pc = "convert"
    /\ folders = <<>>
    /\ heap = <<>>
    /\ \E vms \in [ConvPlaces -> ConvVms],
          others \in SUBSET {Append(master_folder, "vapp"), Append(ConvFolder, "vapp")} :
          server = [IdleServer EXCEPT !.folders = {master_folder, ConvFolder},
                                      !.vms = vms,
                                      !.others = others]
    /\ net_table = {}
    /\ calls = <<>>
    /\ call = <<>>

ConvertAndVerifyCall ==
    /\ pc = "convert"
    /\ Len(call) < MaxCalls
    /\ LET st == _convert_and_verify(State, master_folder)
       IN  /\ server' = ServerOf(st)
           /\ calls' = st.calls
           /\ call' = Append(call,
                 [before |-> server.vms, after |-> st.vms, exc |-> st.exc,
                  issued |-> Issued(State, st)])
    /\ UNCHANGED <<pc, folders, heap, net_table>>

NextConv == ConvertAndVerifyCall

ConvSpec == InitConv /\ [][NextConv]_vars

(* --- _master_base_folder_gen --- *)

\* The base folder Team with its services in some order, and its Master folder
MasterBaseNodes ==
    {[group |-> "students",
      services |-> [k \in DOMAIN order |->
                      [name |-> order[k],
                       cfg |-> [service |-> order[k],
                                networks |-> "Team." \o order[k]]]]]
        : order \in {<<"web", "db">>, <<"db", "web">>,
                     <<"web", "ext", "db">>, <<"ext", "db", "web">>}}

MasterBaseFolder == Append(master_folder, master_prefix \o "Team")

\* What the template folder holds of a template: nothing, a template the host
\* fails to clone, or a template it clones
TemplateStates == {"missing", "unclonable", "ok"}

InitMasterBase ==
    /\ pc = "master_base"
    /\ folders \in MasterBaseNodes
    /\ heap \in LoadedHeaps
    /\ \E n \in 0..MaxNics, status \in [{"web-tmpl", "db-tmpl"} -> TemplateStates] :
          server = [IdleServer EXCEPT
                      !.folders = {master_folder, MasterBaseFolder},
                      !.templates =
                          [t \in {x \in DOMAIN status : status[x] # "missing"} |->
                              [Vm([k \in 1..n |-> NoNet], FALSE)
                                  EXCEPT !.clonable = (status[t] = "ok")]]]
    /\ net_table = {}
    /\ calls = <<>>
    /\ call = <<>>

MasterBaseFolderCall ==
    /\ pc = "master_base"
    /\ call = <<>>
    /\ LET st == _master_base_folder_gen(State, "Team", folders, MasterBaseFolder,
                                         <<"Team">>)
       IN  /\ server' = ServerOf(st)
           /\ heap' = st.heap
           /\ calls' = st.calls
           /\ call' = <<[templates |-> server.templates, exc |-> st.exc]>>
    /\ UNCHANGED <<pc, folders, net_table>>

NextMasterBase == MasterBaseFolderCall

MasterBaseSpec == InitMasterBase /\ [][NextMasterBase]_vars

(* --- _deploy_gen_services --- *)

\* The base folder with its services in some order, web in one or two instances
DeployNodes ==
    {[node EXCEPT !.services =
        [k \in DOMAIN @ |-> IF @[k].name = "web"
                            THEN [@[k] EXCEPT !.cfg = @ @@ i] ELSE @[k]]]
        : node \in MasterBaseNodes, i \in Optional("instances", {[int |-> 2]})}

\* The folder instance deployed into, and the path of its Masters
DeployFolder == <<"Team">>

DeployPath == _path(<<>>, "Team")

InitDeployServices ==
    /\ pc = "deploy_services"
    /\ folders \in DeployNodes
    /\ heap \in LoadedHeaps
    /\ \E n \in 0..MaxNics, found \in SUBSET {"web", "db"} :
          server = [IdleServer EXCEPT
                      !.folders = {master_folder, master_folder \o DeployPath,
                                   DeployFolder},
                      !.vms = [p \in {master_folder \o _path(DeployPath, svc)
                                         : svc \in found} |->
                                  [Vm([k \in 1..n |-> NoNet], FALSE)
                                      EXCEPT !.template = TRUE]]]
    /\ net_table = {}
    /\ calls = <<>>
    /\ call = <<>>

DeployGenServicesCall ==
    /\ pc = "deploy_services"
    /\ call = <<>>
    /\ \E instance \in 0..MaxInstance :
          LET st == _deploy_gen_services(State, folders.services, DeployFolder,
                                         DeployPath, instance, <<"Team">>)
          IN  /\ server' = ServerOf(st)
              /\ heap' = st.heap
              /\ net_table' = st.net_table
              /\ calls' = st.calls
              /\ call' = <<[instance |-> instance, masters |-> DOMAIN server.vms,
                            exc |-> st.exc]>>
    /\ UNCHANGED <<pc, folders>>

NextDeployServices == DeployGenServicesCall

DeployServicesSpec == InitDeployServices /\ [][NextDeployServices]_vars

(* --- _deploy_parent_folder_gen --- *)

\* A parent folder with two base folders, Team with web and Club with db, each
\* of the three with or without an `instances` directive
SiblingTrees ==
    {[children |->
        <<[name |-> "Team",
           node |-> [group |-> "students",
                     services |-> <<[name |-> "web",
                                     cfg |-> [service |-> "web",
                                              networks |-> "Team.web"] @@ w]>>] @@ t],
          [name |-> "Club",
           node |-> [group |-> "students",
                     services |-> <<[name |-> "db",
                                     cfg |-> [service |-> "db",
                                              networks |-> "Team.db"]]>>] @@ c]>>] @@ r :
        r \in Optional("instances", {[int |-> 2], [prefix |-> "G-", number |-> 2]}),
        t \in Optional("instances", {[prefix |-> "T-", number |-> 2]}),
        c \in Optional("instances", {[prefix |-> "T-", number |-> 2]}),
        w \in Optional("instances", {[int |-> 2]})}

InitDeployParent ==
    /\ pc = "deploy_parent"
    /\ folders \in SiblingTrees
    /\ heap \in LoadedHeaps
    /\ \E n \in 0..MaxNics :
          server = [IdleServer EXCEPT
                      !.folders = {master_folder},
                      !.vms = [p \in {master_folder
                                        \o _path(_path(_path(<<>>, f[1]), f[1]), f[2])
                                         : f \in {<<"Team", "web">>, <<"Club", "db">>}} |->
                                  [Vm([k \in 1..n |-> NoNet], FALSE)
                                      EXCEPT !.template = TRUE]]]
    /\ net_table = {}
    /\ calls = <<>>
    /\ call = <<>>

DeployParentFolderCall ==
    /\ pc = "deploy_parent"
    /\ call = <<>>
    /\ LET st == _deploy_parent_folder_gen(State, folders, root_folder, <<>>, <<>>)
       IN  /\ server' = ServerOf(st)
           /\ heap' = st.heap
           /\ net_table' = st.net_table
           /\ calls' = st.calls
           /\ call' = <<[exc |-> st.exc]>>
    /\ UNCHANGED <<pc, folders>>

NextDeployParent == DeployParentFolderCall

DeployParentSpec == InitDeployParent /\ [][NextDeployParent]_vars

(* --- _configure_nics --- *)

NicVm == <<"vm">>

NicList == "networks"

\* What a NIC of the VM may be attached to at entry
NicBackings == {"internet", "team-lan-GENERIC-00", NoNet}

InitNics ==
    /\ pc = "configure_nics"
    /\ folders = <<>>
    /\ \E nics \in SeqsUpTo(NicBackings, MaxNics) :
          server = [IdleServer EXCEPT
                      !.nets = @ \cup {"team-lan-GENERIC-00"},
                      !.vms = (NicVm :> Vm(nics, FALSE))]
    /\ \E list \in SeqsUpTo(CatalogNames, MaxNets) : heap = (NicList :> list)
    /\ net_table = {}
    /\ calls = <<>>
    /\ call = <<>>

ConfigureNicsCall ==
    /\ pc = "configure_nics"
    /\ Len(call) < MaxCalls
    /\ \E instance \in {None} \cup (0..MaxInstance) :
          LET st == _configure_nics(State, NicVm, NicList, instance)
          IN  /\ server' = ServerOf(st)
              /\ net_table' = st.net_table
              /\ heap' = st.heap
              /\ calls' = st.calls
              /\ call' = Append(call,
                    [instance |-> instance, networks |-> heap[NicList],
                     before |-> server.vms[NicVm].nics,
                     known |-> server.nets,
                     after |-> st.vms[NicVm].nics, exc |-> st.exc,
                     issued |-> Issued(State, st)])
    /\ UNCHANGED <<pc, folders>>

NextNics == ConfigureNicsCall

NicSpec == InitNics /\ [][NextNics]_vars

----------------------------------------------------------------------------
(* Properties of the private methods *)

\* The concrete name a declared network stands for in a folder instance
Resolved(name, instance) ==
    IF instance # None /\ _determine_net_type(name) = "generic-networks"
    THEN name \o "-GENERIC-" \o pad(instance)
    ELSE name

NicOps(issued) ==
    SelectSeq(issued, LAMBDA c : c.op \in {"add_nic", "delete_nic", "edit_nic"})

\* The VM has one NIC per declared network, NIC k on the k-th network
NicsMatch(nics, declared, instance) ==
    /\ DOMAIN nics = 1..Len(declared)
    /\ \A k \in 1..Len(declared) : nics[k] = Resolved(declared[k], instance)

(* C4: after _configure_nics returns normally, whatever the number of NICs  *)
(* the VM started with, the VM has exactly one NIC per declared network and *)
(* NIC k is backed by the resolved k-th declared network.                   *)
NicPostcondition_C4 ==
    pc = "configure_nics" =>
        \A j \in DOMAIN call :
            call[j].exc = "" =>
                NicsMatch(call[j].after, call[j].networks, call[j].instance)

(* C5: a call on a VM that already matches the declared list issues no      *)
(* add_nic, delete_nic or edit_nic; and so a second call right after a      *)
(* call that returned, in the same folder instance, issues none either.     *)
NicIdempotent_C5 ==
    pc = "configure_nics" =>
        \A j \in DOMAIN call :
            /\ NicsMatch(call[j].before, call[j].networks, call[j].instance)
                  => NicOps(call[j].issued) = <<>>
            /\ (j > 1 /\ call[j - 1].exc = ""
                      /\ call[j - 1].instance = call[j].instance)
                  => NicOps(call[j].issued) = <<>>

PortgroupsCreated(issued, name) ==
    Len(SelectSeq(issued, LAMBDA c : c.op = "create_portgroup" /\ c.name = name))

IsGenericCall(c) ==
    /\ _determine_net_type(c.name) = "generic-networks"
    /\ c.instance >= 0

(* C7: every _get_net call with a generic (name, instance) returns          *)
(* name-GENERIC-pad(instance), two calls with the same pair return the same *)
(* name, create_portgroup is invoked at most once per concrete name in the  *)
(* run, and never by a call that found the network on the host.             *)
GetNetCreateOnce_C7 ==
    pc = "get_net" =>
        /\ \A j \in DOMAIN call :
              IsGenericCall(call[j]) =>
                /\ call[j].exc = ""
                /\ call[j].ret = call[j].name \o "-GENERIC-" \o pad(call[j].instance)
                /\ PortgroupsCreated(calls, call[j].ret) <= 1
                /\ call[j].ret \in call[j].known
                      => PortgroupsCreated(call[j].issued, call[j].ret) = 0
        /\ \A i, j \in DOMAIN call :
              (/\ IsGenericCall(call[i]) /\ IsGenericCall(call[j])
               /\ call[i].name = call[j].name
               /\ call[i].instance = call[j].instance)
                  => call[i].ret = call[j].ret

\* The same generic network resolved twice, the first call having created it
Witness_C7 ==
    /\ pc = "get_net"
    /\ Len(call) >= 2
    /\ IsGenericCall(call[1])
    /\ call[2].name = call[1].name
    /\ call[2].instance = call[1].instance
    /\ PortgroupsCreated(call[1].issued, call[1].ret) = 1
    /\ call[2].issued = <<>>

\* The count the `instances` value of a node asks for
DeclaredCount(spec) ==
    IF "instances" \notin DOMAIN spec THEN 1
    ELSE IF DOMAIN spec.instances = {"int"} THEN spec.instances.int
    ELSE IF "number" \in DOMAIN spec.instances THEN spec.instances.number
    ELSE IF "size-of" \in DOMAIN spec.instances THEN 1
    ELSE 0

(* C8: for warn < n <= error of the object kind, _instances_handler         *)
(* returns (n, prefix) after emitting a warning.                            *)
WarnRangeSucceeds_C8 ==
    (/\ pc = "instances" /\ call.done
     /\ DeclaredCount(call.spec) > thresholds[call.obj_type].warn
     /\ DeclaredCount(call.spec) <= thresholds[call.obj_type].error)
        => /\ call.ret.exc = ""
           /\ call.ret.num = DeclaredCount(call.spec)
           /\ call.ret.warned

(* C10: the resolution table.  Within the warn threshold the method returns *)
(* (1, "") without an `instances` key, (n, "") for a bare integer n,        *)
(* (number, prefix or "") with `number`, (1, prefix or "") with only        *)
(* `size-of`, (0, prefix or "") with neither, and neither warns nor fails.  *)
ResolutionTable_C10 ==
    (/\ pc = "instances" /\ call.done
     /\ call.ret.num <= thresholds[call.obj_type].warn)
        => LET spec == call.spec
               got  == <<call.ret.num, call.ret.prefix>>
               pfx  == IF "prefix" \in DOMAIN spec.instances
                       THEN spec.instances.prefix ELSE ""
           IN  /\ call.ret.exc = ""
               /\ ~call.ret.warned
               /\ CASE "instances" \notin DOMAIN spec -> got = <<1, "">>
                    [] "int" \in DOMAIN spec.instances ->
                          got = <<spec.instances.int, "">>
                    [] "number" \in DOMAIN spec.instances ->
                          got = <<spec.instances.number, pfx>>
                    [] "size-of" \in DOMAIN spec.instances -> got = <<1, pfx>>
                    [] OTHER -> got = <<0, pfx>>

\* A prefixed directive with only size-of has been resolved
Witness_C10 ==
    /\ pc = "instances" /\ call.done
    /\ "instances" \in DOMAIN call.spec
    /\ DOMAIN call.spec.instances = {"prefix", "size-of"}
    /\ call.ret = [num |-> 1, prefix |-> "T-", warned |-> FALSE, exc |-> ""]

----------------------------------------------------------------------------
(* Properties of the provisioning run *)

\* The path below the Master folder at which Master generation clones the Master
\* VM of a service of the base folder at folder_path (lines 219-220, 289, 299)
MasterVmPath(folder_path, service) ==
    Prefixed(folder_path) \o <<master_prefix \o service>>

CallsWhere(P(_)) == SelectSeq(calls, P)

(* C1: the path _deploy_gen_services looks up under the Master folder for a *)
(* service of a base folder is the path at which Master generation creates  *)
(* the Master VM of that service.                                           *)
PathMirroring_C1 ==
    \A k \in DOMAIN calls :
        calls[k].op = "traverse_path" =>
            calls[k].path =
                MasterVmPath(SubSeq(calls[k].node, 1, Len(calls[k].node) - 1),
                             calls[k].service)

\* The enabled folders of the tree whose ancestors are all enabled
RECURSIVE EnabledFolders(_, _)
EnabledFolders(node, at) ==
    IF "services" \in DOMAIN node THEN {}
    ELSE UNION {IF _is_enabled(node.children[k].node)
                THEN {[at |-> Append(at, node.children[k].name),
                       node |-> node.children[k].node]}
                     \cup EnabledFolders(node.children[k].node,
                                         Append(at, node.children[k].name))
                ELSE {}
                  : k \in DOMAIN node.children}

(* C2: create_masters on a specification whose root is enabled creates one  *)
(* Master-prefixed folder for each enabled child folder and, in each        *)
(* enabled base folder, one Master VM clone per hypervisor-managed service. *)
MastersForEnabled_C2 ==
    (/\ pc = "mastered" /\ server.template_folder /\ _is_enabled(folders))
        => \A f \in EnabledFolders(folders, <<>>) :
              LET where == master_folder \o Prefixed(f.at)
              IN  /\ where \in server.folders
                  /\ Len(CallsWhere(LAMBDA c : c.op = "create_folder"
                                               /\ c.node = f.at)) = 1
                  /\ "services" \in DOMAIN f.node =>
                        \A k \in DOMAIN f.node.services :
                            _is_vsphere(f.node.services[k].cfg.service) =>
                                Len(CallsWhere(LAMBDA c :
                                    /\ c.op = "clone_vm"
                                    /\ c.folder = where
                                    /\ c.name = master_prefix
                                                  \o f.node.services[k].cfg.service))
                                  = 1

\* The scenario: Team, instances {prefix T-, number 3}, one service web
TeamScenario ==
    /\ TeamAt(folders) = <<"Team">>
    /\ _is_enabled(folders)
    /\ LET team == folders.children[1].node
       IN  /\ _is_enabled(team)
           /\ "instances" \in DOMAIN team
           /\ team.instances = [prefix |-> "T-", number |-> 3]
           /\ Len(team.services) = 1
           /\ "instances" \notin DOMAIN team.services[1].cfg

(* C3: in the scenario the deployment creates the folders T-01, T-02, T-03, *)
(* the clone of web in T-0i has its second NIC on team-lan-GENERIC-0i, and  *)
(* each of the three networks is created exactly once.                      *)
TeamScenario_C3 ==
    (/\ TeamScenario /\ pc = "deployed"
     /\ \E p \in DOMAIN server.vms : p[1] = master_root_name)
        => \A i \in 1..3 :
              \E p \in server.folders :
                  /\ p[Len(p)] = "T-" \o pad(i)
                  /\ Append(p, "web") \in DOMAIN server.vms
                  /\ 2 \in DOMAIN server.vms[Append(p, "web")].nics
                  /\ server.vms[Append(p, "web")].nics[2]
                        = "team-lan-GENERIC-" \o pad(i)
                  /\ PortgroupsCreated(calls, "team-lan-GENERIC-" \o pad(i)) = 1

(* C6: the specification is read-only during a run: no phase changes a      *)
(* `networks` list, each holds the elements it was loaded with, in the same *)
(* order.                                                                   *)
SpecReadOnly_C6 == [][heap' = heap]_vars

IsPrefix(p, q) == Len(p) <= Len(q) /\ SubSeq(q, 1, Len(p)) = p

(* C9: when _instances_handler fails on a count beyond the error threshold, *)
(* the failure aborts the run and no folder or clone has been created for   *)
(* the offending object.                                                    *)
ThresholdAborts_C9 ==
    \A j \in DOMAIN call :
        (/\ pc \in {"deployed", "aborted"}
         /\ call[j].failed.obj_type # ""
         /\ call[j].failed.num > thresholds[call[j].failed.obj_type].error) =>
            /\ pc = "aborted"
            /\ call[j].exc # ""
            /\ \A k \in DOMAIN calls :
                  calls[k].op \in {"create_folder", "clone_vm"}
                      => ~IsPrefix(call[j].failed.node, calls[k].node)

----------------------------------------------------------------------------
(* Properties of the phases *)

\* A folder or VM handle below the Master folder
InMasterTree(p) == Len(p) >= 1 /\ p[1] = master_root_name

\* A folder creation or a clone that Deployment issues
IsDeploymentCall(c) ==
    \/ c.op = "create_folder" /\ c.name # master_root_name /\ ~InMasterTree(c.create_in)
    \/ c.op = "clone_vm" /\ ~InMasterTree(c.folder)

\* The steps of _convert_and_verify on one VM
IsConversionCall(c) ==
    c.op \in {"change_vm_state", "create_snapshot", "convert_to_template", "is_template"}
        /\ InMasterTree(c.vm)

(* C11: deploy_environment creates no deployment folder and issues no       *)
(* deployment clone until _convert_and_verify has visited every VM of the   *)
(* whole Master tree: every conversion step precedes every deployment call, *)
(* and every Master VM is a template or was put through conversion by then. *)
ConvertBeforeDeploy_C11 ==
    \A k \in DOMAIN calls :
        IsDeploymentCall(calls[k]) =>
            /\ \A c \in DOMAIN calls : IsConversionCall(calls[c]) => c < k
            /\ \A p \in DOMAIN server.vms :
                  InMasterTree(p) =>
                      \E c \in 1..(k - 1) :
                          calls[c].op = "is_template" /\ calls[c].vm = p

\* A deployment that converted Masters and went on to clone from them
Witness_C11 ==
    /\ pc = "deployed"
    /\ \E k, c \in DOMAIN calls :
          /\ calls[k].op = "clone_vm" /\ ~InMasterTree(calls[k].folder)
          /\ calls[c].op = "convert_to_template"

\* The folder instance a deployed VM is in
FolderOf(vm) == SubSeq(vm, 1, Len(vm) - 1)

\* The generic network a concrete name stands for, "" when it stands for none
GenericOf(concrete) ==
    IF \E g \in DOMAIN networks["generic-networks"], i \in 0..99 :
            concrete = g \o "-GENERIC-" \o pad(i)
    THEN CHOOSE g \in DOMAIN networks["generic-networks"] :
            \E i \in 0..99 : concrete = g \o "-GENERIC-" \o pad(i)
    ELSE ""

\* A NIC of a deployed VM put on the concrete network of a generic reference
IsGenericAttach(c) ==
    c.op = "edit_nic" /\ ~InMasterTree(c.vm) /\ GenericOf(c.summary) # ""

(* C12: two distinct base-folder instances of one deployment resolve the    *)
(* same generic network to different concrete names, and the services of    *)
(* one folder instance resolve it to the same concrete name.                *)
GenericIsolation_C12 ==
    \A a, b \in DOMAIN calls :
        (/\ IsGenericAttach(calls[a]) /\ IsGenericAttach(calls[b])
         /\ GenericOf(calls[a].summary) = GenericOf(calls[b].summary))
            => (FolderOf(calls[a].vm) = FolderOf(calls[b].vm)
                    <=> calls[a].summary = calls[b].summary)

\* The service entries of the base folder of the specification, with their place
BaseServices ==
    LET team == IF TeamAt(folders) = <<"Team">> THEN folders.children[1].node
                ELSE folders.children[1].node.children[1].node
    IN  {[at |-> Append(TeamAt(folders), team.services[k].name),
          idx |-> k,
          name |-> team.services[k].name,
          cfg |-> team.services[k].cfg,
          service |-> team.services[k].cfg.service] : k \in DOMAIN team.services}

\* The call is issued for that service entry: it names the entry, or a VM that
\* Master generation or Deployment would make for it
Concerns(c, e) ==
    \/ "node" \in DOMAIN c /\ c.node = e.at
    \/ "vm" \in DOMAIN c /\
          c.vm[Len(c.vm)] \in {master_prefix \o e.service, e.name}
                                \cup {e.name \o " " \o pad(i) : i \in 0..99}

(* C13: a service instance whose service definition has no `template` key   *)
(* produces no driver call in either phase: no template lookup, clone, NIC  *)
(* operation or snapshot in Master generation, and no Master lookup, clone  *)
(* or NIC operation in Deployment.                                          *)
ForeignUntouched_C13 ==
    \A e \in BaseServices :
        ~_is_vsphere(e.service) =>
            \A k \in DOMAIN calls : ~Concerns(calls[k], e)

\* A deployment that cloned the services declared next to a foreign one
Witness_C13 ==
    /\ \E e \in BaseServices : ~_is_vsphere(e.service)
    /\ \E e \in BaseServices, k \in DOMAIN calls :
          /\ _is_vsphere(e.service)
          /\ calls[k].op = "clone_vm" /\ calls[k].node = e.at
          /\ ~InMasterTree(calls[k].folder)

\* A hypervisor-managed service entry declared with a count of zero
DeclaresNone(e) == _is_vsphere(e.service) /\ InstancesNum(e.cfg) = 0

(* C14: a service instance declared with `instances: 0` yields no clone and *)
(* no NIC operation during deployment, raises no error, and the services    *)
(* declared after it in the folder are still deployed.                      *)
ZeroInstances_C14 ==
    \A e \in BaseServices :
        DeclaresNone(e) =>
            /\ \A k \in DOMAIN calls :
                  /\ ~(calls[k].op = "clone_vm" /\ calls[k].node = e.at
                         /\ ~InMasterTree(calls[k].folder))
                  /\ ~(/\ calls[k].op \in {"add_nic", "delete_nic", "edit_nic"}
                        /\ ~InMasterTree(calls[k].vm)
                        /\ Concerns(calls[k], e))
            /\ \A j \in DOMAIN call : call[j].failed.node # e.at
            /\ \A k \in DOMAIN calls :
                  (calls[k].op = "traverse_path" /\ calls[k].node = e.at) =>
                      \A e2 \in BaseServices :
                          (e2.idx > e.idx /\ _is_vsphere(e2.service)) =>
                              \E m \in (k + 1)..Len(calls) :
                                  /\ calls[m].op = "traverse_path"
                                  /\ calls[m].node = e2.at

\* A deployment that found the Master of a service declared with zero instances
\* and cloned the service declared after it
Witness_C14 ==
    /\ pc = "deployed"
    /\ \E e, e2 \in BaseServices, k, m \in DOMAIN calls :
          /\ DeclaresNone(e) /\ e2.idx > e.idx /\ k < m
          /\ calls[k].op = "traverse_path" /\ calls[k].node = e.at
          /\ master_folder \o calls[k].path \in DOMAIN server.vms
          /\ calls[m].op = "clone_vm" /\ calls[m].node = e2.at

(* C15: a fatal configuration error ends the run with a failure outcome     *)
(* instead of a normal return, before the phase changes the hypervisor:     *)
(* a missing template folder in create_masters, a missing Master folder in  *)
(* deploy_environment.                                                      *)
FatalConfiguration_C15 ==
    call # <<>> =>
        LET last == call[Len(call)]
        IN  /\ (last.entry = "create_masters" /\ ~server.template_folder)
                  => (last.exc = "SystemExit" /\ calls = <<>>)
            /\ (last.entry = "deploy_environment" /\ master_folder \notin server.folders)
                  => (last.exc = "SystemExit" /\ calls = <<>>)

(* C16: net_table only grows: a name once recorded stays recorded in every  *)
(* later state, and a generic concrete name is recorded as soon as it has   *)
(* been resolved, whether the host had the network or it was just created.  *)
NetTableGrows_C16 ==
    [][/\ net_table \subseteq net_table'
       /\ \A j \in DOMAIN call' :
             (IsGenericCall(call'[j]) /\ call'[j].exc = "")
                 => call'[j].ret \in net_table']_vars

\* Two generic networks resolved and recorded, one that the host had and one
\* that was created
Witness_C16 ==
    /\ pc = "get_net"
    /\ \E i, j \in DOMAIN call :
          /\ IsGenericCall(call[i]) /\ IsGenericCall(call[j])
          /\ call[i].ret \in call[i].known
          /\ call[j].ret \notin call[j].known
          /\ PortgroupsCreated(call[j].issued, call[j].ret) = 1
          /\ {call[i].ret, call[j].ret} \subseteq net_table

\* The port groups created so far, in order
Creations == SelectSeq(calls, LAMBDA c : c.op = "create_portgroup")

(* C17: the VLAN tags the allocator hands out are unique within a run: the  *)
(* k-th network created with an allocated tag gets 2000 + (k - 1), so no    *)
(* two of them get the same tag.                                            *)
VlanUnique_C17 ==
    pc = "get_net" =>
        /\ \A k \in DOMAIN Creations : Creations[k].vlan = 2000 + (k - 1)
        /\ \A k, m \in DOMAIN Creations :
              k # m => Creations[k].vlan # Creations[m].vlan

\* The names of the instances a folder asks for with its own directive
OwnInstanceNames(name, node) ==
    {FolderInstanceName(name, InstancesPrefix(node), InstancesNum(node), i)
        : i \in 0..(InstancesNum(node) - 1)}

\* The names of the folders Deployment made for the folder at that place
MadeFor(at) ==
    {calls[k].name : k \in {m \in DOMAIN calls :
        /\ calls[m].op = "create_folder" /\ ~InMasterTree(calls[m].create_in)
        /\ calls[m].name # master_root_name
        /\ calls[m].node = at}}

(* C18: the instance folders Deployment makes for a child folder, and their *)
(* names, come from the child's own `instances` directive: its c instances  *)
(* are all made, and no folder made for it is named or numbered after the   *)
(* directive of its parent (the folder's own name is what holds the         *)
(* instances of a base folder).                                             *)
OwnDirective_C18 ==
    (pc = "deployed" /\ _is_enabled(folders)) =>
        \A f \in EnabledFolders(folders, <<>>) :
            LET name == f.at[Len(f.at)]
            IN  /\ OwnInstanceNames(name, f.node) \subseteq MadeFor(f.at)
                /\ MadeFor(f.at) \subseteq OwnInstanceNames(name, f.node) \cup {name}

\* Every folder node of the tree, the root included, with its place
RECURSIVE AllFolders(_, _)
AllFolders(node, at) ==
    {[at |-> at, node |-> node]} \cup
    (IF "services" \in DOMAIN node THEN {}
     ELSE UNION {AllFolders(node.children[k].node, Append(at, node.children[k].name))
                    : k \in DOMAIN node.children})

\* A driver call issued for the folder at that place or for something below it
IsCallBelow(c, at) ==
    /\ "node" \in DOMAIN c
    /\ IsPrefix(at, c.node)
    /\ ~(c.op = "create_folder" /\ c.name = master_root_name)

(* C19: a disabled folder node (enabled == false; a parent or a base        *)
(* folder, the root or a child) leaves its subtree untouched in both        *)
(* phases: no driver call is issued for it or below it, not even the        *)
(* create_folder of the disabled node itself.                               *)
DisabledUntouched_C19 ==
    \A f \in AllFolders(folders, <<>>) :
        ~_is_enabled(f.node) =>
            \A k \in DOMAIN calls : ~IsCallBelow(calls[k], f.at)

\* How many times Deployment looked up the Master of that service entry
Lookups(e) ==
    Len(SelectSeq(calls, LAMBDA c : c.op = "traverse_path" /\ c.node = e.at))

(* C20: a network resolution error is soft: when _get_net fails during the  *)
(* NIC reconcile of a deployed clone, the run is not aborted by it, and the *)
(* walk goes on through the remaining services and folder instances, so     *)
(* every hypervisor-managed service of the folder is looked up in every     *)
(* folder instance.                                                         *)
ResolutionSoft_C20 ==
    \A j \in DOMAIN call :
        call[j].entry = "deploy_environment" =>
            /\ call[j].exc \notin {"TypeError", "ValueError"}
            /\ call[j].exc = "" =>
                  \A e, e2 \in BaseServices :
                      (_is_vsphere(e.service) /\ _is_vsphere(e2.service))
                          => Lookups(e) = Lookups(e2)

----------------------------------------------------------------------------
(* More properties of the NIC reconciler *)

\* The NIC numbers of the delete_nic calls issued, in order
Deleted(issued) ==
    LET dels == SelectSeq(issued, LAMBDA c : c.op = "delete_nic")
    IN  [k \in DOMAIN dels |-> dels[k].nic_number]

(* C21: on a VM with more NICs than declared networks (current > target)    *)
(* _configure_nics issues exactly current - target delete_nic calls, on the *)
(* NICs current, current - 1, ..., target + 1 in that order, the NICs being *)
(* numbered 1..current as in the edit step.                                 *)
NicRemoval_C21 ==
    pc = "configure_nics" =>
        \A j \in DOMAIN call :
            LET current == Cardinality(DOMAIN call[j].before)
                target  == Len(call[j].networks)
            IN  (DOMAIN call[j].before = 1..current /\ current > target) =>
                    Deleted(call[j].issued)
                        = [k \in 1..(current - target) |-> current + 1 - k]

----------------------------------------------------------------------------
(* Properties of template conversion *)

(* C22: whenever Deployment issues a clone, the Master VM it clones from is *)
(* a template at that moment, whatever the conversion before it came to     *)
(* (a conversion whose verification failed included).                       *)
CloneFromTemplate_C22 ==
    \A k \in DOMAIN calls :
        (calls[k].op = "clone_vm" /\ ~InMasterTree(calls[k].folder))
            => calls[k].from_template

\* The steps issued for one VM, and where in the sequence they are
StepsFor(issued, vm) ==
    LET mine == SelectSeq(issued, LAMBDA c : c.vm = vm)
    IN  [k \in DOMAIN mine |-> mine[k].op]

Mutations(issued) ==
    SelectSeq(issued, LAMBDA c :
        c.op \in {"change_vm_state", "create_snapshot", "convert_to_template"})

(* C23: template conversion is idempotent across runs: a VM that is already *)
(* a template gets no power-state change, no snapshot and no convert call,  *)
(* so _convert_and_verify over a tree of templates issues no mutating call. *)
ConvertIdempotent_C23 ==
    pc = "convert" =>
        \A j \in DOMAIN call :
            /\ \A p \in DOMAIN call[j].before :
                  call[j].before[p].template => StepsFor(call[j].issued, p) = <<>>
            /\ (\A p \in DOMAIN call[j].before : call[j].before[p].template)
                  => Mutations(call[j].issued) = <<>>

\* A second run over the Masters that the first run converted
Witness_C23 ==
    /\ pc = "convert"
    /\ Len(call) = 2
    /\ Len(Mutations(call[1].issued)) >= 6
    /\ \A p \in DOMAIN call[2].before : call[2].before[p].template
    /\ call[2].issued = <<>>

(* C24: for every Master VM that is not a template, the power-off request   *)
(* (issued only if the VM is powered on) precedes the "Start of exercise"   *)
(* snapshot, which precedes convert-to-template, which precedes the         *)
(* verification; the steps of one VM are not interleaved with another's.    *)
ConversionOrder_C24 ==
    pc = "convert" =>
        \A j \in DOMAIN call :
            \A p \in DOMAIN call[j].before :
                ~call[j].before[p].template =>
                    /\ StepsFor(call[j].issued, p) =
                          (IF call[j].before[p].on THEN <<"change_vm_state">> ELSE <<>>)
                            \o <<"create_snapshot", "convert_to_template", "is_template">>
                    /\ \A a, b, c \in DOMAIN call[j].issued :
                          (/\ a < b /\ b < c
                           /\ call[j].issued[a].vm = p /\ call[j].issued[c].vm = p)
                              => call[j].issued[b].vm = p
                    /\ \A a \in DOMAIN call[j].issued :
                          (call[j].issued[a].op = "create_snapshot"
                              /\ call[j].issued[a].vm = p)
                              => call[j].issued[a].name = "Start of exercise"

\* A run that converted a VM that was on and a VM that was off
Witness_C24 ==
    /\ pc = "convert"
    /\ \E j \in DOMAIN call : \E p, q \in DOMAIN call[j].before :
          /\ ~call[j].before[p].template /\ call[j].before[p].on
          /\ ~call[j].before[q].template /\ ~call[j].before[q].on
          /\ Len(StepsFor(call[j].issued, p)) = 4
          /\ Len(StepsFor(call[j].issued, q)) = 3

\* How many times the run verified that the VM has become a template
Verifications(issued, vm) ==
    Len(SelectSeq(issued, LAMBDA c : c.op = "is_template" /\ c.vm = vm))

(* C25: a failed verification is not fatal: _convert_and_verify returns     *)
(* having put every VM of the Master tree that was not a template through   *)
(* conversion exactly once, siblings and sub-folders after a failure        *)
(* included, and having issued nothing for an object that is neither a VM   *)
(* nor a folder.                                                            *)
VerificationSoft_C25 ==
    pc = "convert" =>
        \A j \in DOMAIN call :
            /\ call[j].exc = ""
            /\ \A p \in DOMAIN call[j].before :
                  ~call[j].before[p].template
                      => Verifications(call[j].issued, p) = 1
            /\ \A k \in DOMAIN call[j].issued :
                  call[j].issued[k].vm \notin server.others

\* A run in which the first VM verified failed and all three VMs were verified,
\* next to objects that are neither VM nor folder
Witness_C25 ==
    /\ pc = "convert"
    /\ Cardinality(server.others) = 2
    /\ \E j \in DOMAIN call :
          LET checks == SelectSeq(call[j].issued, LAMBDA c : c.op = "is_template")
          IN  /\ Len(checks) = 3
              /\ ~checks[1].verified

----------------------------------------------------------------------------
(* Properties of Master generation *)

\* The hypervisor-managed service entries of the folder being mastered
MasterEntriesOf(node) ==
    {[idx |-> k, at |-> <<"Team", node.services[k].name>>,
      vm |-> Append(MasterBaseFolder, master_prefix \o node.services[k].cfg.service),
      template |-> services[node.services[k].cfg.service].template]
        : k \in {i \in DOMAIN node.services : _is_vsphere(node.services[i].cfg.service)}}

\* The clone of the service's template failed: no template, or no clone afterwards
CloneFailed(e) ==
    \/ e.template \notin DOMAIN call[1].templates
    \/ ~call[1].templates[e.template].clonable

HasCall(op, field, value) ==
    \E k \in DOMAIN calls : calls[k].op = op /\ calls[k][field] = value

----------------------------------------------------------------------------
(* Properties of _deploy_gen_services *)

\* The hypervisor-managed service entries of the folder being deployed
DeployEntriesOf(node) ==
    {[idx |-> k, at |-> <<"Team", node.services[k].name>>,
      name |-> node.services[k].name,
      service |-> node.services[k].cfg.service,
      master |-> master_folder \o _path(DeployPath, node.services[k].cfg.service)]
        : k \in {i \in DOMAIN node.services : _is_vsphere(node.services[i].cfg.service)}}

(* C27: an unresolvable Master is a per-service skip: when the lookup of    *)
(* the Master path returns nothing for a service, no clone and no NIC       *)
(* operation is issued for any instance of that service, and the remaining  *)
(* services of the folder instance are still deployed: the walk goes on    *)
(* with the service declared next.                                          *)
MissingMasterSkips_C27 ==
    (pc = "deploy_services" /\ call # <<>>) =>
        \A e \in DeployEntriesOf(folders) :
            (e.master \notin call[1].masters
                /\ HasCall("traverse_path", "node", e.at)) =>
                /\ ~HasCall("clone_vm", "node", e.at)
                /\ \A k \in DOMAIN calls :
                      "vm" \in DOMAIN calls[k] => ~Concerns(calls[k], e)
                /\ \A e2 \in DeployEntriesOf(folders) :
                      (/\ e2.idx > e.idx
                       /\ ~\E e3 \in DeployEntriesOf(folders) :
                              e.idx < e3.idx /\ e3.idx < e2.idx) =>
                          /\ HasCall("traverse_path", "node", e2.at)
                          /\ e2.master \in call[1].masters
                                => HasCall("clone_vm", "node", e2.at)

\* The Master of the first service was not found and the service after it was
\* cloned
Witness_C27 ==
    /\ pc = "deploy_services" /\ call # <<>>
    /\ \E e, e2 \in DeployEntriesOf(folders) :
          /\ e.idx < e2.idx
          /\ e.master \notin call[1].masters
          /\ e2.master \in call[1].masters
          /\ HasCall("clone_vm", "node", e2.at)

----------------------------------------------------------------------------
(* Properties of the entry points *)

\* A clone of a template into the Master tree
IsMasterClone(c) == c.op = "clone_vm" /\ InMasterTree(c.folder)

(* C28: in create_masters every declared network of every category has     *)
(* been checked, and created when the host lacked it, before the first      *)
(* Master VM clone is issued.                                               *)
NetworksBeforeClones_C28 ==
    \A k \in DOMAIN calls :
        IsMasterClone(calls[k]) =>
            \A name \in CatalogNames :
                /\ name \in server.nets
                /\ \A c \in DOMAIN calls :
                      (calls[c].op = "create_portgroup" /\ calls[c].name = name)
                          => c < k

\* Master generation that created the networks of the catalog and cloned a Master
Witness_C28 ==
    /\ pc = "mastered"
    /\ \E k \in DOMAIN calls : IsMasterClone(calls[k])
    /\ \A name \in CatalogNames : PortgroupsCreated(calls, name) = 1

(* C29: Deployment produces uniquely named objects: the folders created     *)
(* under the same parent folder have pairwise distinct names, and so have   *)
(* the VM clones created in the same folder, for every combination of       *)
(* folder and service `instances` directives.                               *)
UniqueNames_C29 ==
    pc = "deploy_parent" =>
        \A a, b \in DOMAIN calls :
            a # b =>
                /\ (/\ calls[a].op = "create_folder" /\ calls[b].op = "create_folder"
                     /\ calls[a].create_in = calls[b].create_in)
                        => calls[a].name # calls[b].name
                /\ (/\ calls[a].op = "clone_vm" /\ calls[b].op = "clone_vm"
                     /\ calls[a].folder = calls[b].folder)
                        => calls[a].name # calls[b].name

====
